---- MODULE Spec2Model ----
(***************************************************************************)
(* Model of scripts/generate_ast.py: the generator of the Go AST node      *)
(* types (one struct per spec string) and of the Visitor interface.        *)
(*                                                                         *)
(* Text is a sequence of tokens.  A character of an input string is a      *)
(* one-character string; a literal fragment of the generator's own text    *)
(* (for instance "type Visitor interface {\n") is one token.  A call of    *)
(* outfile.write(t) appends t to out, so out is the sequence of the texts  *)
(* written and the file's content is their concatenation.                  *)
(***************************************************************************)
EXTENDS Integers, Sequences, FiniteSets

VARIABLES
    entry,        \* "main": the script is run; "define_ast": define_ast is called
    argv,         \* sys.argv
    writable,     \* open(output_path, 'w+') succeeds
    typestrings,  \* the list of spec strings of define_ast
    pc,           \* where the run is: "main", "define_ast", "visitor_loop",
                  \* "class_loop", "done"
    i,            \* the position of the current for loop in typestrings
    out,          \* the texts written to outfile, in order
    opened,       \* the output file has been opened
    status,       \* the exit status of the process, -1 while there is none
    err,          \* what ended the run: "none", "usage", "OSError", "IndexError"
    run,          \* 1 in the first run of an input, 2 in the second
    prev          \* what the first run wrote

vars == <<entry, argv, writable, typestrings, pc, i, out, opened, status,
          err, run, prev>>

----------------------------------------------------------------------------
(* Bounds of the model *)

\* the longest list of spec strings, among the lists enumerated in full
MaxTypes == 2
\* the most characters of such a list, all its strings together
MaxChars == 5
\* the most positional arguments on the command line
MaxArgs == 2

----------------------------------------------------------------------------
(* Python's str operations, on sequences of characters *)

\* the characters str.strip() and str.lstrip() remove
Whitespace == {" ", "\t", "\n"}

RECURSIVE LStrip(_)
LStrip(s) ==
    IF s = <<>> \/ Head(s) \notin Whitespace THEN s ELSE LStrip(Tail(s))

RECURSIVE RStrip(_)
RStrip(s) ==
    IF s = <<>> \/ s[Len(s)] \notin Whitespace
    THEN s
    ELSE RStrip(SubSeq(s, 1, Len(s) - 1))

Strip(s) == RStrip(LStrip(s))

\* s.split(sep): cut at every occurrence of sep; always at least one piece
RECURSIVE Split(_, _)
Split(s, sep) ==
    IF \A k \in 1..Len(s) : s[k] # sep
    THEN <<s>>
    ELSE LET k == CHOOSE k \in 1..Len(s) :
                      s[k] = sep /\ \A j \in 1..(k - 1) : s[j] # sep
         IN  <<SubSeq(s, 1, k - 1)>> \o Split(SubSeq(s, k + 1, Len(s)), sep)

----------------------------------------------------------------------------
(* main *)

ExUsage == 64

\* the list ts of main
\* "BinaryExpr   :  left Expr, op Token, right Expr"
TsBinaryExpr ==
    <<"B", "i", "n", "a", "r", "y", "E", "x", "p", "r", " ", " ",
      " ", ":", " ", " ", "l", "e", "f", "t", " ", "E", "x", "p",
      "r", ",", " ", "o", "p", " ", "T", "o", "k", "e", "n", ",",
      " ", "r", "i", "g", "h", "t", " ", "E", "x", "p", "r">>

\* "Grouping     :  exp Expr"
TsGrouping ==
    <<"G", "r", "o", "u", "p", "i", "n", "g", " ", " ", " ", " ",
      " ", ":", " ", " ", "e", "x", "p", " ", "E", "x", "p", "r">>

\* "Literal      :  val interface{}"
TsLiteral ==
    <<"L", "i", "t", "e", "r", "a", "l", " ", " ", " ", " ", " ",
      " ", ":", " ", " ", "v", "a", "l", " ", "i", "n", "t", "e",
      "r", "f", "a", "c", "e", "{", "}">>

\* "Unary        :  op Token, right Expr"
TsUnary ==
    <<"U", "n", "a", "r", "y", " ", " ", " ", " ", " ", " ", " ",
      " ", ":", " ", " ", "o", "p", " ", "T", "o", "k", "e", "n",
      ",", " ", "r", "i", "g", "h", "t", " ", "E", "x", "p", "r">>

\* "Variable     :  name Token"
TsVariable ==
    <<"V", "a", "r", "i", "a", "b", "l", "e", " ", " ", " ", " ",
      " ", ":", " ", " ", "n", "a", "m", "e", " ", "T", "o", "k",
      "e", "n">>

MainTs == <<TsBinaryExpr, TsGrouping, TsLiteral, TsUnary, TsVariable>>

UsageErrorNoArgument(args) == Len(args) < 1

\* len(sys.argv) != 1, after the pop of the executable's path
UsageError(args) == Len(args) # 1

\* open(output_path, 'w+'): the file is created or truncated
OpenTruncate(content) == <<>>

----------------------------------------------------------------------------
(* define_ast, write_class, write_preamble *)

PreambleStamped ==
    << <<"package main\n">>,
       <<"\n// -- AUTOGENERATED FILE -- (see scripts/generate_ast.py for details...)\n">>,
       <<"// This is a simple implementation of the Visitor pattern from OOP\n">>,
       <<"// generation ", IF run = 1 THEN "1" ELSE "2", "\n">> >>

Preamble ==
    << <<"package main\n">>,
       <<"\n// -- AUTOGENERATED FILE -- (see scripts/generate_ast.py for details...)\n">>,
       <<"// This is a simple implementation of the Visitor pattern from OOP\n">> >>

VisitorOpen == <<"type Visitor interface {\n">>

VisitorClassNameUnstripped(typ) == Split(typ, ":")[1]

\* class_name of the Visitor loop
VisitorClassName(typ) == Strip(Split(typ, ":")[1])

VisitLine(class_name) ==
    <<"\tVisit">> \o class_name \o <<"(c *">> \o class_name \o <<")\n">>

ExprInterface ==
    << <<"}\n">>,
       <<"\ntype Expr interface {\n">>,
       <<"\taccept(Visitor)\n">>,
       <<"}\n">> >>

ClassNameUnstripped(typ) == Split(typ, ":")[1]

\* class_name of the struct loop
ClassName(typ) == Strip(Split(typ, ":")[1])

\* typ.split(':')[1] exists
HasFieldText(typ) == Len(Split(typ, ":")) >= 2

\* field_list of the struct loop
FieldList(typ) == Split(Strip(Split(typ, ":")[2]), ",")

FieldLine(field) == <<"\n\t">> \o LStrip(field)

AcceptStub(class_name) ==
    << <<"\n// accept method stub for ">> \o class_name \o <<"\n">>,
       <<"func (c * ">> \o class_name \o <<") accept(v Visitor) {\n">>,
       <<"\tv.Visit">> \o class_name \o <<"(c)\n">>,
       <<"}\n">> >>

WriteClassAcceptFirst(class_name, field_list) ==
    AcceptStub(class_name)
    \o << <<"\n// ">> \o class_name \o <<" is a simple type of AST node">>,
          <<"\ntype ">> \o class_name \o <<" struct {">> >>
    \o [j \in 1..Len(field_list) |-> FieldLine(field_list[j])]
    \o << <<"\n}\n">> >>

WriteClass(class_name, field_list) ==
    << <<"\n// ">> \o class_name \o <<" is a simple type of AST node">>,
       <<"\ntype ">> \o class_name \o <<" struct {">> >>
    \o [j \in 1..Len(field_list) |-> FieldLine(field_list[j])]
    \o << <<"\n}\n">> >>
    \o AcceptStub(class_name)

----------------------------------------------------------------------------
(* Inputs *)

Alphabet == {"A", ":", ",", " "}

\* the sum of the first k lengths
RECURSIVE Offset(_, _)
Offset(lens, k) == IF k = 0 THEN 0 ELSE Offset(lens, k - 1) + lens[k]

\* the text flat cut into strings of the lengths lens
Cut(flat, lens) ==
    [k \in 1..Len(lens) |->
        SubSeq(flat, Offset(lens, k - 1) + 1, Offset(lens, k))]

\* the lengths of the strings of a list: at most MaxTypes strings, at most
\* MaxChars characters together
Shapes ==
    {lens \in UNION {[1..k -> 0..MaxChars] : k \in 0..MaxTypes} :
        Offset(lens, Len(lens)) <= MaxChars}

\* longer lists of spec strings, of the shapes of main's
SampleCatalogs ==
    { << <<"A", " ", ":", " ", "A", ",", " ", "A">> >>,
      << <<"A", ":", "A", " ", ",", "A">> >>,
      << <<"A", ":", "A", ",", ",", "A">> >>,
      << <<"A", ":", "A", ":", "A", ",", "A">> >>,
      << <<"A", " ", ":", " ", "A">>, <<"A", " ", ":", " ", "A", ",", "A">> >>,
      << <<"A", ":", "A">>, <<"A", "A", ":", "A">>, <<"A", "A", "A">> >> }

ArgLists ==
    {<<"generate_ast.py">> \o [j \in 1..n |-> "dir"] : n \in 0..MaxArgs}

----------------------------------------------------------------------------
(* The state machine *)

\* Either the script is run from the command line (main), or define_ast is
\* called with a list of spec strings and an open, empty output file.
Init ==
    /\ \/ /\ entry = "main"
          /\ argv \in ArgLists
          /\ writable \in BOOLEAN
          /\ typestrings = <<>>
          /\ pc = "main"
          /\ opened = FALSE
       \/ /\ entry = "define_ast"
          /\ argv = <<>>
          /\ writable = TRUE
          /\ \/ \E lens \in Shapes :
                   \E flat \in [1..Offset(lens, Len(lens)) -> Alphabet] :
                       typestrings = Cut(flat, lens)
             \/ typestrings \in SampleCatalogs
          /\ pc = "define_ast"
          /\ opened = TRUE
    /\ i = 0
    /\ out = <<>>
    /\ status = -1
    /\ err = "none"
    /\ run = 1
    /\ prev = <<>>

\* main, up to the call of define_ast
Main ==
    /\ pc = "main"
    /\ argv' = Tail(argv)
    /\ IF UsageError(Tail(argv))
       THEN /\ pc' = "done"
            /\ status' = ExUsage
            /\ err' = "usage"
            /\ UNCHANGED <<typestrings, out, opened>>
       ELSE IF ~writable
       THEN /\ pc' = "done"
            /\ status' = 1
            /\ err' = "OSError"
            /\ UNCHANGED <<typestrings, out, opened>>
       ELSE /\ pc' = "define_ast"
            /\ typestrings' = MainTs
            /\ out' = OpenTruncate(out)
            /\ opened' = TRUE
            /\ UNCHANGED <<status, err>>
    /\ UNCHANGED <<entry, writable, i, run, prev>>

\* define_ast: the preamble and the opening of the Visitor interface
DefineAstBegin ==
    /\ pc = "define_ast"
    /\ out' = out \o Preamble \o <<VisitorOpen>>
    /\ i' = 1
    /\ pc' = "visitor_loop"
    /\ UNCHANGED <<entry, argv, writable, typestrings, opened, status, err,
                   run, prev>>

\* one turn of the Visitor loop
VisitorStep ==
    /\ pc = "visitor_loop"
    /\ i <= Len(typestrings)
    /\ out' = out \o <<VisitLine(VisitorClassName(typestrings[i]))>>
    /\ i' = i + 1
    /\ UNCHANGED <<entry, argv, writable, typestrings, pc, opened, status,
                   err, run, prev>>

\* the end of the Visitor interface, and the Expr interface
VisitorEnd ==
    /\ pc = "visitor_loop"
    /\ i > Len(typestrings)
    /\ out' = out \o ExprInterface
    /\ i' = 1
    /\ pc' = "class_loop"
    /\ UNCHANGED <<entry, argv, writable, typestrings, opened, status, err,
                   run, prev>>

\* one turn of the struct loop: write_class, or the IndexError of
\* typ.split(':')[1], which ends main with a traceback and status 1
ClassStep ==
    /\ pc = "class_loop"
    /\ i <= Len(typestrings)
    /\ IF HasFieldText(typestrings[i])
       THEN /\ out' = out \o WriteClass(ClassName(typestrings[i]),
                                        FieldList(typestrings[i]))
            /\ i' = i + 1
            /\ UNCHANGED <<pc, status, err>>
       ELSE /\ pc' = "done"
            /\ err' = "IndexError"
            /\ status' = IF entry = "main" THEN 1 ELSE status
            /\ UNCHANGED <<out, i>>
    /\ UNCHANGED <<entry, argv, writable, typestrings, opened, run, prev>>

\* define_ast returns; main closes the file and the process ends
DefineAstEnd ==
    /\ pc = "class_loop"
    /\ i > Len(typestrings)
    /\ pc' = "done"
    /\ status' = IF entry = "main" THEN 0 ELSE status
    /\ UNCHANGED <<entry, argv, writable, typestrings, i, out, opened, err,
                   run, prev>>

\* The same run once more: the script with the same command line (the
\* file of the first run is still there), or define_ast with the same list
\* and a new, empty output file.
Rerun ==
    /\ pc = "done"
    /\ run = 1
    /\ run' = 2
    /\ prev' = out
    /\ IF entry = "main"
       THEN /\ argv' = <<"generate_ast.py">> \o argv
            /\ pc' = "main"
            /\ UNCHANGED out
       ELSE /\ pc' = "define_ast"
            /\ out' = <<>>
            /\ UNCHANGED argv
    /\ status' = -1
    /\ err' = "none"
    /\ UNCHANGED <<entry, writable, typestrings, i, opened>>

Next ==
    \/ Main
    \/ DefineAstBegin
    \/ VisitorStep
    \/ VisitorEnd
    \/ ClassStep
    \/ DefineAstEnd

Spec == Init /\ [][Next]_vars

NextTwice == Next \/ Rerun

SpecTwice == Init /\ [][NextTwice]_vars

----------------------------------------------------------------------------
(* The vocabulary of the properties.  A spec string and the output are     *)
(* read here by position, not with the generator's own split and strip.    *)

Min(S) == CHOOSE x \in S : \A y \in S : x <= y
Max(S) == CHOOSE x \in S : \A y \in S : x >= y

Positions(s, c) == {k \in 1..Len(s) : s[k] = c}

\* s without its leading and trailing blanks
Trimmed(s) ==
    LET ink == {k \in 1..Len(s) : s[k] \notin Whitespace}
    IN  IF ink = {} THEN <<>> ELSE SubSeq(s, Min(ink), Max(ink))

\* s without its leading blanks
LeftTrimmed(s) ==
    LET ink == {k \in 1..Len(s) : s[k] \notin Whitespace}
    IN  IF ink = {} THEN <<>> ELSE SubSeq(s, Min(ink), Len(s))

\* the pieces of s between the occurrences of c
Pieces(s, c) ==
    LET P == Positions(s, c)
        cut(j) == IF j = 0 THEN 0
                  ELSE IF j = Cardinality(P) + 1 THEN Len(s) + 1
                  ELSE CHOOSE p \in P : Cardinality({q \in P : q < p}) = j - 1
    IN  [j \in 1..(Cardinality(P) + 1) |->
            SubSeq(s, cut(j - 1) + 1, cut(j) - 1)]

HasColon(s) == Positions(s, ":") # {}

\* the text before the first ':' (the whole string when there is none)
BeforeFirstColon(s) ==
    IF HasColon(s) THEN SubSeq(s, 1, Min(Positions(s, ":")) - 1) ELSE s

\* the text after the first ':'
AfterFirstColon(s) == SubSeq(s, Min(Positions(s, ":")) + 1, Len(s))

\* the node name of a spec string
SpecName(s) == Trimmed(BeforeFirstColon(s))

\* the field declarations of a spec string
SpecFields(s) == Pieces(AfterFirstColon(s), ",")

DistinctNames(ts) ==
    \A a, b \in 1..Len(ts) : SpecName(ts[a]) = SpecName(ts[b]) => a = b

\* the j-th smallest member of a set of positions
Nth(S, j) == CHOOSE p \in S : Cardinality({q \in S : q < p}) = j - 1

Close == <<"}\n">>

VisitOperation(n) == <<"\tVisit">> \o n \o <<"(c *">> \o n \o <<")\n">>

IsVisitOperation(w) == w[1] = "\tVisit"

\* where the Visitor interface opens in the output, and where it closes
VisitorOpens == {k \in 1..Len(out) : out[k] = <<"type Visitor interface {\n">>}

VisitorCloses ==
    {k \in 1..Len(out) : out[k] = Close /\ \E vo \in VisitorOpens : vo < k}

VisitorClosed == VisitorCloses # {}

\* the operation lines of the Visitor interface, once it is closed
VisitorOps == SubSeq(out, Min(VisitorOpens) + 1, Min(VisitorCloses) - 1)

\* C1: for a list of spec strings with pairwise distinct names, the
\* Visitor interface written by define_ast holds one operation line per
\* spec string, Visit<Name>(c *<Name>), the i-th line for the i-th string.
C1_VisitorMirrorsCatalog ==
    (VisitorClosed /\ DistinctNames(typestrings)) =>
        VisitorOps =
            [k \in 1..Len(typestrings) |->
                VisitOperation(SpecName(typestrings[k]))]

C1_Witness ==
    /\ VisitorClosed
    /\ Len(typestrings) = 2
    /\ DistinctNames(typestrings)
    /\ \E k \in 1..2 : SpecName(typestrings[k]) # BeforeFirstColon(typestrings[k])
    /\ pc = "done"
    /\ err = "none"

\* a write that opens a struct type: "\ntype " + class_name + " struct {"
IsStructOpen(w) == Len(w) >= 2 /\ w[1] = "\ntype " /\ w[Len(w)] = " struct {"

StructName(w) == SubSeq(w, 2, Len(w) - 1)

StructOpens == {p \in 1..Len(out) : IsStructOpen(out[p])}

AcceptHeader(n) == <<"func (c * ">> \o n \o <<") accept(v Visitor) {\n">>

AcceptCall(n) == <<"\tv.Visit">> \o n \o <<"(c)\n">>

IsAcceptHeader(w) == w[1] = "func (c * "

\* the accept methods of the struct type n: the positions of their headers
AcceptsOf(n) == {q \in 1..Len(out) : out[q] = AcceptHeader(n)}

\* C2: for a list of spec strings with pairwise distinct names, every
\* struct type <Name> of the output has one accept method, its body is the
\* single call v.Visit<Name>(c), it follows the struct before the next
\* struct opens, and Visit<Name> is an operation of the Visitor interface.
C2_AcceptForwardsToOwnVisit ==
    (pc = "done" /\ StructOpens # {} /\ DistinctNames(typestrings)) =>
        \A p \in StructOpens :
            LET n == StructName(out[p])
            IN  /\ Cardinality(AcceptsOf(n)) = 1
                /\ \A q \in AcceptsOf(n) :
                      /\ q > p
                      /\ \A r \in StructOpens : ~(p < r /\ r < q)
                      /\ q + 2 <= Len(out)
                      /\ out[q + 1] = AcceptCall(n)
                      /\ out[q + 2] = Close
                /\ \E k \in 1..Len(VisitorOps) : VisitorOps[k] = VisitOperation(n)

C2_Witness ==
    /\ pc = "done"
    /\ DistinctNames(typestrings)
    /\ Cardinality(StructOpens) = 2
    /\ \E k \in 1..2 : SpecName(typestrings[k]) # BeforeFirstColon(typestrings[k])

\* C5: main with a number of positional arguments other than one ends with
\* status 64 and has neither opened nor written the output file; with one
\* argument and a writable destination it ends with status 0.  (argv holds
\* the positional arguments once main has popped the executable's path.)
C5_UsageAndExitStatus ==
    (entry = "main" /\ pc # "main") =>
        /\ Len(argv) # 1 =>
              (pc = "done" /\ status = 64 /\ ~opened /\ out = <<>>)
        /\ (Len(argv) = 1 /\ writable /\ pc = "done") =>
              (status = 0 /\ err = "none" /\ opened)

C5_Witness ==
    /\ entry = "main"
    /\ pc = "done"
    /\ Len(argv) = 2
    /\ status = 64

\* the head of the output: the preamble, then the Visitor interface's opening
Head4 ==
    << <<"package main\n">>,
       <<"\n// -- AUTOGENERATED FILE -- (see scripts/generate_ast.py for details...)\n">>,
       <<"// This is a simple implementation of the Visitor pattern from OOP\n">>,
       <<"type Visitor interface {\n">> >>

\* what a write of the per-node part is, by its first token
BlockKind(w) ==
    IF IsStructOpen(w) THEN "struct"
    ELSE IF w[1] = "\n// accept method stub for " THEN "stub"
    ELSE IF w[1] = "\n// " THEN "comment"
    ELSE IF w[1] = "\n\t" THEN "field"
    ELSE IF w = <<"\n}\n">> THEN "endstruct"
    ELSE IF IsAcceptHeader(w) THEN "accept"
    ELSE IF w[1] = "\tv.Visit" THEN "call"
    ELSE IF w = Close THEN "end"
    ELSE "other"

\* the kinds that may follow a kind inside the per-node part
BlockFollows(a, b) ==
    \/ a = "comment" /\ b = "struct"
    \/ a = "struct" /\ b \in {"field", "endstruct"}
    \/ a = "field" /\ b \in {"field", "endstruct"}
    \/ a = "endstruct" /\ b = "stub"
    \/ a = "stub" /\ b = "accept"
    \/ a = "accept" /\ b = "call"
    \/ a = "call" /\ b = "end"
    \/ a = "end" /\ b = "comment"

\* C6: the output is, in this order, the preamble, the Visitor interface
\* (its operations, then closed), the Expr interface declaring
\* accept(Visitor), then the per-node blocks in input order; every struct
\* comes after both interfaces, and each struct is followed by its accept
\* method before the next struct begins.
C6_SectionOrder ==
    /\ Len(out) > 0 => (Len(out) >= 4 /\ SubSeq(out, 1, 4) = Head4)
    /\ \A k \in 5..Len(out) :
          (\A j \in 5..(k - 1) : IsVisitOperation(out[j])) =>
              (IsVisitOperation(out[k]) \/ out[k] = Close)
    /\ VisitorClosed =>
          LET e == 5 + Len(VisitorOps)
          IN  /\ Len(out) >= e + 3
              /\ SubSeq(out, e, e + 3) =
                    << Close, <<"\ntype Expr interface {\n">>,
                       <<"\taccept(Visitor)\n">>, Close >>
              /\ StructOpens \subseteq (e + 5)..Len(out)
              /\ Len(out) > e + 3 => BlockKind(out[e + 4]) = "comment"
              /\ \A k \in (e + 4)..(Len(out) - 1) :
                    BlockFollows(BlockKind(out[k]), BlockKind(out[k + 1]))
              /\ BlockKind(out[Len(out)]) = "end"
              /\ \A j \in 1..Cardinality(StructOpens) :
                    /\ j <= Len(typestrings)
                    /\ StructName(out[Nth(StructOpens, j)]) =
                           SpecName(typestrings[j])
    /\ (pc = "done" /\ err = "none" /\ opened) =>
          (VisitorClosed /\ Cardinality(StructOpens) = Len(typestrings))

C6_Witness ==
    /\ pc = "done"
    /\ err = "none"
    /\ Cardinality(StructOpens) = 2
    /\ \E k \in 1..Len(out) : BlockKind(out[k]) = "field" /\ Len(out[k]) > 1

FieldsAt(p) ==
    LET e == Min({q \in (p + 1)..Len(out) : out[q] = <<"\n}\n">>})
    IN  [j \in 1..(e - p - 1) |-> Tail(out[p + j])]

\* the field lines of the j-th struct of the output
FieldsOfStruct(j) == FieldsAt(Nth(StructOpens, j))

\* the run is over and has written a struct for every spec string
AllStructsWritten ==
    pc = "done" /\ err = "none" /\ Cardinality(StructOpens) = Len(typestrings)

\* a spec string of the shape Name : fields, with one ':'
OneColon(s) == Cardinality(Positions(s, ":")) = 1

\* a spec string with a field declaration that is empty once trimmed
HasEmptyField(s) ==
    /\ HasColon(s)
    /\ \E j \in 1..Len(SpecFields(s)) : Trimmed(SpecFields(s)[j]) = <<>>

\* Name : f1 t1, f2 t2, ... with a name, one ':' and no empty field
WellFormed(s) == OneColon(s) /\ SpecName(s) # <<>> /\ ~HasEmptyField(s)

HasDuplicateName(ts) == ~DistinctNames(ts)

\* C3: with two spec strings of the same node name generation fails with
\* DuplicateNodeType and writes nothing; no Visitor interface with two
\* identical Visit<Name> operations is emitted.  (Stated for lists whose
\* strings are well-formed each, so that the duplicate is the only fault.)
C3_DuplicateRejected ==
    (/\ pc = "done"
     /\ \A k \in 1..Len(typestrings) : WellFormed(typestrings[k])
     /\ HasDuplicateName(typestrings)) =>
        /\ err = "DuplicateNodeType"
        /\ out = <<>>
        /\ \A a, b \in 1..Len(out) :
              (IsVisitOperation(out[a]) /\ out[a] = out[b]) => a = b

\* C4: when a spec string has no ':', generation stops before anything is
\* written: when the run fails, the output is empty, wherever the string
\* without ':' stands in the list.  (Stated for lists whose other strings
\* are well-formed and distinct in name.)
C4_NothingWrittenOnMalformed ==
    (/\ pc = "done"
     /\ \E k \in 1..Len(typestrings) : ~HasColon(typestrings[k])
     /\ \A k \in 1..Len(typestrings) :
           /\ SpecName(typestrings[k]) # <<>>
           /\ HasColon(typestrings[k]) => WellFormed(typestrings[k])
     /\ DistinctNames(typestrings)) =>
        (err # "none" /\ out = <<>>)

\* C7: the struct of a well-formed spec string declares the field
\* declarations of the string, one per line, in the string's order, each
\* trimmed of leading and trailing blanks and otherwise as written.
C7_FieldsTrimmedInOrder ==
    AllStructsWritten =>
        \A k \in 1..Len(typestrings) :
            WellFormed(typestrings[k]) =>
                FieldsOfStruct(k) =
                    [j \in 1..Len(SpecFields(typestrings[k])) |->
                        Trimmed(SpecFields(typestrings[k])[j])]

\* C9: a spec string is split at its first ':' only: the name is the
\* trimmed text before it and the fields are the whole text after it,
\* split at ','; a later ':' cuts nothing off.  (Stated for strings with
\* text on both sides of every ':' and no empty field; blanks around a
\* field are left out of the comparison.)
C9_SplitAtFirstColonOnly ==
    AllStructsWritten =>
        \A k \in 1..Len(typestrings) :
            (/\ HasColon(typestrings[k])
             /\ \A j \in 1..Len(Pieces(typestrings[k], ":")) :
                   Trimmed(Pieces(typestrings[k], ":")[j]) # <<>>
             /\ ~HasEmptyField(typestrings[k])) =>
                /\ StructName(out[Nth(StructOpens, k)]) = SpecName(typestrings[k])
                /\ Len(FieldsOfStruct(k)) = Len(SpecFields(typestrings[k]))
                /\ \A j \in 1..Len(FieldsOfStruct(k)) :
                      Trimmed(FieldsOfStruct(k)[j]) =
                          Trimmed(SpecFields(typestrings[k])[j])

\* C10: when a spec string has a field declaration that is empty after
\* trimming, generation fails with MalformedGrammarSpec and no struct with
\* an empty field line is emitted.  (Stated for strings with a name and one
\* ':'.)
C10_EmptyFieldRejected ==
    (/\ pc = "done"
     /\ \A k \in 1..Len(typestrings) :
           OneColon(typestrings[k]) /\ SpecName(typestrings[k]) # <<>>
     /\ DistinctNames(typestrings)
     /\ \E k \in 1..Len(typestrings) : HasEmptyField(typestrings[k])) =>
        /\ err = "MalformedGrammarSpec"
        /\ \A p \in StructOpens :
              \A j \in 1..Len(FieldsAt(p)) : Trimmed(FieldsAt(p)[j]) # <<>>

====
